---- MODULE Spec2Model ----
(***************************************************************************)
(* A model of mlx-mkbfb.py: the BlueField boot stream header codec, the    *)
(* image record (payload, padding, CRC32), make_stream (assembly of a boot *)
(* stream from prior streams and command-line images) and dump_stream      *)
(* (listing / extraction).                                                 *)
(*                                                                         *)
(* Representation.                                                         *)
(* A byte is a number 0..255, a file a sequence of bytes, a 64-bit word the *)
(* 8 bytes struct packs it to.  A bitmap (following_images, fim_map) is    *)
(* the set of the positions of its 1 bits, so | is \cup and & ~ is \.  A   *)
(* command-line string (the image source) is a sequence of code points; an *)
(* image identifier is the sequence of its '-'-separated segments, so      *)
(* "bl2-cert-v1" is <<"bl2", "cert", "v1">>.                               *)
(***************************************************************************)
EXTENDS Integers, Sequences, FiniteSets, TLC

VARIABLES
    pc,                   \* position of the running operation
    args,                 \* arguments of make_stream
    dargs,                \* arguments of dump_stream
    fs,                   \* boot stream files: name -> bytes
    xfiles,               \* files written by dump_stream -x: name -> bytes
    open,                 \* file objects opened and not closed
    k,                    \* make_stream: index of the running for loop
    pos,                  \* read position of the open input stream
    infile_images,        \* make_stream: id -> version -> Image (from inputs)
    cmdline_images,       \* make_stream: id -> version -> Image (command line)
    cmdline_image_order,  \* make_stream: ids in first-named order
    image_order,          \* make_stream: emission order of ids
    images,               \* make_stream: versions of the current id to emit
    fim_map,              \* make_stream: following_images accumulator
    listing,              \* dump_stream: headers printed by -d -v
    result,               \* how the last operation ended
    h,                    \* codec: the ImageHdr under test
    hbits,                \* codec: its 24 bytes (get_bits)
    hdec,                 \* codec: outcome of parsing hbits
    readback                \* read-back: what was done to the written stream

-----------------------------------------------------------------------------
(* Bits and bytes *)

\* (a >> shift) & (2^width - 1)
Field(a, shift, width) == (a \div (2 ^ shift)) % (2 ^ width)

\* a ^ b of two 4-bit integers, tabulated
XorTable ==
    [a \in 0..15 |->
        [b \in 0..15 |->
              ((a + b) % 2)
            + 2 * ((Field(a, 1, 1) + Field(b, 1, 1)) % 2)
            + 4 * ((Field(a, 2, 1) + Field(b, 2, 1)) % 2)
            + 8 * ((Field(a, 3, 1) + Field(b, 3, 1)) % 2)] @@ <<>>] @@ <<>>

\* a ^ b of two bytes
Xor8(a, b) ==
    XorTable[a % 16][b % 16] + 16 * XorTable[a \div 16][b \div 16]

\* a ^ b of two 16-bit integers
Xor16(a, b) ==
    Xor8(a % 256, b % 256) + 256 * Xor8(a \div 256, b \div 256)

\* struct "<I": the 4 bytes of a 32-bit integer, least significant first
\* (model integers are below 2^31).
U32Bytes(v) ==
    <<v % 256, (v \div 256) % 256, (v \div 65536) % 256,
      (v \div 16777216) % 256>>

BytesU32(bs) == bs[1] + 256 * bs[2] + 65536 * bs[3] + 16777216 * bs[4]

\* struct.pack("<Q", w) of a bitmap w, kept as the set of its 1 bits.
WordBytes(w) ==
    LET bit(n) == IF n \in w THEN 1 ELSE 0
    IN  [n \in 1..8 |->
            bit(8 * n - 8) + 2 * bit(8 * n - 7) + 4 * bit(8 * n - 6)
            + 8 * bit(8 * n - 5) + 16 * bit(8 * n - 4) + 32 * bit(8 * n - 3)
            + 64 * bit(8 * n - 2) + 128 * bit(8 * n - 1)]

\* struct.unpack("<Q", bs) of 8 bytes, as the set of the 1 bits.
BytesWord(bs) == {b \in 0..63 : Field(bs[(b \div 8) + 1], b % 8, 1) = 1}

\* 1 << n
Bit(n) == {n}

Zeros(n) == [x \in 1..n |-> 0]

-----------------------------------------------------------------------------
(* Module-level tables and constants *)

\* image_list, as <<command-line option, image ID>> (the description, which
\* only the listing prints, is left out).  Order is significant.
image_list == <<
    << <<"psc", "bl">>, 36 >>,
    << <<"psc", "fw">>, 37 >>,
    << <<"bl2r", "cert">>, 31 >>,
    << <<"bl2r">>, 30 >>,
    << <<"bl2", "cert">>, 6 >>,
    << <<"bl2">>, 1 >>,
    << <<"sys">>, 29 >>,
    << <<"ddr", "cert">>, 38 >>,
    << <<"ddr_ini">>, 32 >>,
    << <<"snps_images">>, 33 >>,
    << <<"ddr_ate_imem">>, 34 >>,
    << <<"ddr_ate_dmem">>, 35 >>,
    << <<"bl30", "key", "cert">>, 8 >>,
    << <<"bl30", "cert">>, 12 >>,
    << <<"bl30">>, 2 >>,
    << <<"trusted", "key", "cert">>, 7 >>,
    << <<"bl31", "key", "cert">>, 9 >>,
    << <<"bl31", "cert">>, 13 >>,
    << <<"bl31">>, 3 >>,
    << <<"psc", "app">>, 39 >>,
    << <<"bl32", "key", "cert">>, 10 >>,
    << <<"bl32", "cert">>, 14 >>,
    << <<"bl32">>, 4 >>,
    << <<"bl33", "key", "cert">>, 11 >>,
    << <<"bl33", "cert">>, 15 >>,
    << <<"bl33">>, 5 >>,
    << <<"capsule">>, 52 >>,
    << <<"boot", "acpi">>, 55 >>,
    << <<"boot", "dtb">>, 56 >>,
    << <<"boot", "desc">>, 57 >>,
    << <<"boot", "path">>, 58 >>,
    << <<"boot", "args">>, 59 >>,
    << <<"boot", "timeout">>, 60 >>,
    << <<"uefi", "tests">>, 61 >>,
    << <<"ramdisk">>, 54 >>,
    << <<"image">>, 62 >>,
    << <<"initramfs">>, 63 >>
    >>

ImageNames == {image_list[n][1] : n \in DOMAIN image_list}
ImageIds == {image_list[n][2] : n \in DOMAIN image_list}

\* image_table[x][1]: command-line option -> image ID
image_table ==
    [x \in ImageNames |->
        image_list[CHOOSE n \in DOMAIN image_list : image_list[n][1] = x][2]]

\* rev_image_table[z][0]: image ID -> command-line option
rev_image_table ==
    [z \in ImageIds |->
        image_list[CHOOSE n \in DOMAIN image_list : image_list[n][2] = z][1]]

MAX_VER == 2
MAJOR_VER == 1
MINOR_VER == 2

magic == 318924354           \* 0x13026642
default_major == MAJOR_VER
default_minor == MINOR_VER
length == 24

num_padding_bytes(len) == ((len + 7) - ((len + 7) % 8)) - len

-----------------------------------------------------------------------------
(* binascii.crc32 *)

\* A 32-bit CRC is kept as <<high 16 bits, low 16 bits>>.
\* The reflected CRC-32 polynomial 0xEDB88320, in halves.
CrcPolyHi == 60856
CrcPolyLo == 33568

RECURSIVE CrcShift(_, _)
\* n rounds of: c = (c >> 1) ^ (poly if c & 1 else 0)
CrcShift(c, n) ==
    IF n = 0 THEN c
    ELSE IF c[2] % 2 = 1
        THEN CrcShift(<<Xor16(c[1] \div 2, CrcPolyHi),
                        Xor16((c[2] \div 2) + 32768 * (c[1] % 2), CrcPolyLo)>>,
                      n - 1)
        ELSE CrcShift(<<c[1] \div 2, (c[2] \div 2) + 32768 * (c[1] % 2)>>,
                      n - 1)

\* The CRC of each byte value: the table binascii.crc32 goes by.
CrcTable == [n \in 0..255 |-> CrcShift(<<0, n>>, 8)] @@ <<>>

RECURSIVE CrcBytes(_, _)
\* The register after the bytes of data, one byte at a time:
\* c = table[(c ^ byte) & 0xFF] ^ (c >> 8).  (The test on c has the
\* register evaluated at every byte.)
CrcBytes(data, c) ==
    IF data = <<>> \/ c[2] < 0 THEN c
    ELSE LET t == CrcTable[Xor8(c[2] % 256, Head(data))]
         IN  CrcBytes(Tail(data),
                      <<Xor16(t[1], c[1] \div 256),
                        Xor16(t[2], (c[2] \div 256) + 256 * (c[1] % 256))>>)

\* binascii.crc32(data, crc) & 0xFFFFFFFF
Crc32(data, crc) ==
    LET c == CrcBytes(data, <<65535 - crc[1], 65535 - crc[2]>>)
    IN  <<65535 - c[1], 65535 - c[2]>>

Crc0 == <<0, 0>>

-----------------------------------------------------------------------------
(* class ImageHdr *)

\* ImageHdr.__init__ without infile
ImageHdr(image_id, image_len, image_crc, cur_img_ver) ==
    [major |-> default_major, minor |-> default_minor,
     image_id |-> image_id, next_img_ver |-> 0, cur_img_ver |-> cur_img_ver,
     image_len |-> image_len, image_crc |-> image_crc,
     following_images |-> {}]

\* A different program: next_img_ver shifted by 40 instead of 44, which
\* puts it in the low half of byte 6.
get_bitsNextVerAt40(hd) ==
    LET w0 == U32Bytes(magic)
              \o << (hd.major % 16) + 16 * (hd.minor % 16),
                    hd.next_img_ver % 16,
                    (hd.cur_img_ver % 16) + 16 * ((length \div 8) % 16),
                    hd.image_id % 256 >>
        w1 == U32Bytes(hd.image_len)
              \o << hd.image_crc[2] % 256, hd.image_crc[2] \div 256,
                    hd.image_crc[1] % 256, hd.image_crc[1] \div 256 >>
        w2 == WordBytes(hd.following_images)
    IN  w0 \o w1 \o w2

\* ImageHdr.get_bits: the words w0, w1, w2 packed "<QQQ".  In w0 a field
\* shifted by 32 is the low half of byte 5, by 36 its high half, by 44 the
\* high half of byte 6, by 48 and 52 the halves of byte 7, by 56 byte 8.
get_bits(hd) ==
    LET w0 == U32Bytes(magic)
              \o << (hd.major % 16) + 16 * (hd.minor % 16),
                    16 * (hd.next_img_ver % 16),
                    (hd.cur_img_ver % 16) + 16 * ((length \div 8) % 16),
                    hd.image_id % 256 >>
        w1 == U32Bytes(hd.image_len)
              \o << hd.image_crc[2] % 256, hd.image_crc[2] \div 256,
                    hd.image_crc[1] % 256, hd.image_crc[1] \div 256 >>
        w2 == WordBytes(hd.following_images)
    IN  w0 \o w1 \o w2

\* infile.read(n) at position p: at most n bytes, fewer at end of file.
Read(stream, p, n) ==
    SubSeq(stream, p + 1, IF p + n <= Len(stream) THEN p + n ELSE Len(stream))

\* ImageHdr.__set_from_file once 24 bytes are read: the fields, then the
\* checks.  status is "ok", or the exception raised.
HdrUnpack(instr) ==
    LET minor == Field(instr[5], 4, 4)                     \* (w0 >> 36) & 0xF
        hd == [major |-> Field(instr[5], 0, 4),            \* (w0 >> 32) & 0xF
               minor |-> minor,
               image_id |-> instr[8],                      \* (w0 >> 56) & 0xFF
               image_len |-> BytesU32(SubSeq(instr, 9, 12)),
               image_crc |-> <<instr[15] + 256 * instr[16],
                               instr[13] + 256 * instr[14]>>,
               following_images |-> BytesWord(SubSeq(instr, 17, 24)),
               next_img_ver |->                            \* (w0 >> 44) & 0xF
                    IF minor <= 2 THEN Field(instr[6], 4, 4) ELSE 0,
               cur_img_ver |->                             \* (w0 >> 48) & 0xF
                    IF minor <= 2 THEN Field(instr[7], 0, 4) ELSE 0]
    IN  IF SubSeq(instr, 1, 4) # U32Bytes(magic)
            THEN [status |-> "BadHdr", msg |-> "Bad ImageHdr magic number"]
        ELSE IF hd.major # default_major
            THEN [status |-> "BadHdr", msg |-> "Bad ImageHdr major version"]
        ELSE IF hd.minor > default_minor
            THEN [status |-> "BadHdr", msg |-> "Bad ImageHdr minor version"]
        ELSE IF Field(instr[7], 4, 4) # length \div 8       \* (w0 >> 52) & 0xF
            THEN [status |-> "BadHdr", msg |-> "Bad ImageHdr header length"]
        ELSE [status |-> "ok", header |-> hd]

\* A different program: a header cut short by the end of the file is taken
\* for the end of the stream.
HdrSetFromFileShortIsEnd(stream, p) ==
    LET instr == Read(stream, p, length)
    IN  IF Len(instr) < length THEN [status |-> "NoHdr", msg |-> ""]
        ELSE HdrUnpack(instr)

\* ImageHdr.__set_from_file: parse the header at position p of stream.
HdrSetFromFile(stream, p) ==
    LET instr == Read(stream, p, length)
    IN  IF instr = <<>> THEN [status |-> "NoHdr", msg |-> ""]
        ELSE IF Len(instr) < length
            THEN [status |-> "BadHdr", msg |-> "ImageHdr too short"]
        ELSE HdrUnpack(instr)

-----------------------------------------------------------------------------
(* class Image *)

\* Python's str.encode('utf-8') of code points below 0x800.
Utf8(text) ==
    LET enc(c) == IF c < 128 THEN <<c>>
                  ELSE <<192 + (c \div 64), 128 + (c % 64)>>
        RECURSIVE cat(_)
        cat(t) == IF t = <<>> THEN <<>> ELSE enc(Head(t)) \o cat(Tail(t))
    IN  cat(text)

\* Image.get_padding
get_padding(img) == Zeros(num_padding_bytes(img.header.image_len))

\* Image.write: header, payload, padding.
ImageWrite(img) == get_bits(img.header) \o img.bits \o get_padding(img)

\* A different program: the padding is checked and left in the stream.
ImageSetFromStreamPaddingLeft(stream, p) ==
    LET hr == HdrSetFromFile(stream, p)
        len == hr.header.image_len
        bits == Read(stream, p + length, len)
        padding == Read(stream, p + length + Len(bits), num_padding_bytes(len))
        crc == Crc32(padding, Crc32(bits, Crc0))
    IN  IF hr.status # "ok" THEN hr
        ELSE IF Len(bits) # len
            THEN [status |-> "Exception",
                  msg |-> "stream corrupted, image too short"]
        ELSE IF crc # hr.header.image_crc
            THEN [status |-> "Exception",
                  msg |-> "header CRC does not match calculated CRC"]
        ELSE [status |-> "ok",
              img |-> [header |-> hr.header, bits |-> bits],
              pos |-> p + length + Len(bits)]

\* A different program: the CRC is computed and never compared.
ImageSetFromStreamUnchecked(stream, p) ==
    LET hr == HdrSetFromFile(stream, p)
        len == hr.header.image_len
        bits == Read(stream, p + length, len)
        padding == Read(stream, p + length + Len(bits), num_padding_bytes(len))
    IN  IF hr.status # "ok" THEN hr
        ELSE IF Len(bits) # len
            THEN [status |-> "Exception",
                  msg |-> "stream corrupted, image too short"]
        ELSE [status |-> "ok",
              img |-> [header |-> hr.header, bits |-> bits],
              pos |-> p + length + Len(bits) + Len(padding)]

\* Image.__set_from_stream at position p of stream.  On "ok", pos is the
\* position after the record.
ImageSetFromStream(stream, p) ==
    LET hr == HdrSetFromFile(stream, p)
        len == hr.header.image_len
        bits == Read(stream, p + length, len)
        padding == Read(stream, p + length + Len(bits), num_padding_bytes(len))
        crc == Crc32(padding, Crc32(bits, Crc0))
    IN  IF hr.status # "ok" THEN hr
        ELSE IF Len(bits) # len
            THEN [status |-> "Exception",
                  msg |-> "stream corrupted, image too short"]
        ELSE IF crc # hr.header.image_crc
            THEN [status |-> "Exception",
                  msg |-> "header CRC does not match calculated CRC"]
        ELSE [status |-> "ok",
              img |-> [header |-> hr.header, bits |-> bits],
              pos |-> p + length + Len(bits) + Len(padding)]

\* The version a "-vN" segment names: len(ver) > 1 and ver[0] == 'v' and
\* ver[1:].isdigit(), then int(ver[1:]), tabulated for the suffixes in use.
ver_suffix == ("v0" :> 0) @@ ("v1" :> 1) @@ ("v2" :> 2) @@ ("v3" :> 3)

\* The image identifier and version idstr names: an identifier suffixed with
\* "-vN" names version N when what precedes the suffix is in image_table.
ParseIdstr(idstr) ==
    LET n == Len(idstr)
        img == SubSeq(idstr, 1, n - 1)        \* idstr.rsplit('-', 1)
        ver == idstr[n]
    IN  IF n > 1 /\ ver \in DOMAIN ver_suffix /\ img \in DOMAIN image_table
        THEN [idstr |-> img, img_ver |-> ver_suffix[ver]]
        ELSE [idstr |-> idstr, img_ver |-> 0]

\* The payload of a command-line image: the file's bytes, or the string
\* that follows "=" (code point 61).  files: name -> bytes.
SourceBits(files, infile) ==
    IF Head(infile) = 61 THEN Utf8(Tail(infile)) ELSE files[infile]

\* Image.__set_from_file: the image of a file name, or of a string preceded
\* by "=", under the identifier idstr.
ImageSetFromFile(files, infile, idstr) ==
    LET bits == SourceBits(files, infile)
        len == Len(bits)
        crc == Crc32(Zeros(num_padding_bytes(len)), Crc32(bits, Crc0))
        id == ParseIdstr(idstr)
    IN  IF Head(infile) # 61 /\ infile \notin DOMAIN files
            THEN [status |-> "FileNotFoundError", msg |-> ""]
        ELSE IF id.idstr \notin DOMAIN image_table
            THEN [status |-> "KeyError", msg |-> ""]
        ELSE [status |-> "ok",
              img |-> [header |-> ImageHdr(image_table[id.idstr], len, crc,
                                           id.img_ver),
                       bits |-> bits]]

\* Image.__init__(infile=fn, idstr=idver); an empty fn is falsy, and the
\* image is then the empty one (its bits, None, are never written: image ID
\* 0 is in no table).
ImageInit(files, infile, idstr) ==
    IF infile = <<>>
    THEN [status |-> "ok", img |-> [header |-> ImageHdr(0, 0, Crc0, 0),
                                    bits |-> <<>>]]
    ELSE ImageSetFromFile(files, infile, idstr)

-----------------------------------------------------------------------------
(* Dictionaries and lists *)

EmptyDict == <<>>

\* d[key] = val
DictSet(d, key, val) ==
    [x \in DOMAIN d \cup {key} |-> IF x = key THEN val ELSE d[x]]

\* d.update(e)
DictUpdate(d, e) ==
    [x \in DOMAIN d \cup DOMAIN e |-> IF x \in DOMAIN e THEN e[x] ELSE d[x]]

\* d[id][ver] = img, creating d[id] when absent
DictSet2(d, id, ver, img) ==
    DictSet(d, id, DictSet(IF id \in DOMAIN d THEN d[id] ELSE EmptyDict,
                           ver, img))

RECURSIVE sorted(_)
\* sorted(keys): ascending
sorted(S) ==
    IF S = {} THEN <<>>
    ELSE LET m == CHOOSE x \in S : \A y \in S : x <= y
         IN  <<m>> \o sorted(S \ {m})

-----------------------------------------------------------------------------
(* The files the operations are run on *)

\* A record of a prior boot stream, as an earlier build wrote it.
PriorImage(image_id, ver, minor, next, following, bits) ==
    [header |-> [major |-> MAJOR_VER, minor |-> minor, image_id |-> image_id,
                 next_img_ver |-> next, cur_img_ver |-> ver,
                 image_len |-> Len(bits),
                 image_crc |-> Crc32(Zeros(num_padding_bytes(Len(bits))),
                                     Crc32(bits, Crc0)),
                 following_images |-> following],
     bits |-> bits]

RECURSIVE StreamOf(_)
\* The bytes of a boot stream holding the records recs.
StreamOf(recs) ==
    IF recs = <<>> THEN <<>>
    ELSE ImageWrite(Head(recs)) \o StreamOf(Tail(recs))

\* Prior boot streams: what each input file holds.
PriorA == << PriorImage(1, 2, 2, 0, {3}, <<162, 163>>),
             PriorImage(3, 0, 1, 0, {}, <<161>>) >>
PriorB == << PriorImage(29, 0, 2, 0, {3}, <<177>>),
             PriorImage(3, 0, 2, 1, {3}, <<178>>),
             PriorImage(3, 1, 2, 0, {}, <<179, 180, 181, 182, 183, 184, 185, 186>>) >>
PriorUnk == << PriorImage(99, 0, 2, 0, {}, <<1>>) >>

\* A stream with one payload byte changed after it was written.
Corrupted(stream, at) == [stream EXCEPT ![at] = (stream[at] + 1) % 256]

InputFiles ==
    [n \in {"a.bfb", "b.bfb", "short.bfb", "crc.bfb", "unk.bfb"} |->
        CASE n = "a.bfb" -> StreamOf(PriorA)
          [] n = "b.bfb" -> StreamOf(PriorB)
          [] n = "short.bfb" ->
                StreamOf(<<PriorB[3]>>) \o SubSeq(StreamOf(PriorA), 1, 5)
          [] n = "crc.bfb" -> Corrupted(StreamOf(PriorB), length + 1)
          [] n = "unk.bfb" -> StreamOf(PriorUnk)]

\* Image files named on the command line: name (code points) -> bytes.
srcfiles == (<<102>> :> <<1, 2, 3, 4, 5, 6, 7, 8, 9>>)

\* Image options of a command line: <<identifier, file name or "=" string>>.
SourcePool == {
    << <<"bl2", "v1">>, <<61, 98, 49>> >>,       \* --bl2-v1="=b1"
    << <<"bl2">>, <<102>> >>,                     \* --bl2=f
    << <<"sys">>, <<61, 80, 78>> >>,              \* --sys="=PN"
    << <<"bl31", "v0">>, <<61, 233>> >>,          \* --bl31-v0="=e-acute"
    << <<"bl2", "cert">>, <<61>> >>,              \* --bl2-cert="="
    << <<"bogus", "v1">>, <<61, 120>> >>,         \* an identifier in no table
    << <<"sys">>, <<>> >> }                       \* --sys=""

MaxInputs == 2            \* main passes at most two input files
MaxSources == 2

\* Tuples of at most n elements of S.
SeqsUpTo(S, n) == UNION {[1..m -> S] : m \in 0..n}

OutFn == "out.bfb"

-----------------------------------------------------------------------------
(* make_stream *)

vars == <<pc, args, dargs, fs, xfiles, open, k, pos, infile_images, cmdline_images,
          cmdline_image_order, image_order, images, fim_map, listing, result,
          h, hbits, hdec, readback>>

codecVars == <<h, hbits, hdec, readback>>
makeVars == <<infile_images, cmdline_images, cmdline_image_order,
              image_order, images, fim_map>>

InFile(n) == <<"infile", n>>
OutFile(n) == <<"outfile", n>>

\* An exception leaves the operation: nothing after the raise runs.
Raise(exc, msg) == pc' = "failed" /\ result' = <<exc, msg>>

\* A different program: the output file is opened on entry, before any
\* input is read.
MakeStreamOpensOutputFirst ==
    /\ pc = "idle"
    /\ \E infnt \in SeqsUpTo(DOMAIN InputFiles, MaxInputs),
          image_tuples \in SeqsUpTo(SourcePool, MaxSources),
          expert \in BOOLEAN :
            args' = [infnt |-> infnt, outfn |-> OutFn,
             image_tuples |-> image_tuples, expert |-> expert]
    /\ fs' = DictSet(fs, OutFn, <<>>)
    /\ open' = open \cup {OutFile(OutFn)}
    /\ fim_map' = {}
    /\ infile_images' = EmptyDict
    /\ cmdline_images' = EmptyDict
    /\ cmdline_image_order' = <<>>
    /\ k' = 1
    /\ pc' = "inputs"
    /\ result' = <<"running", "">>
    /\ UNCHANGED <<dargs, xfiles, pos, image_order, images, listing,
                   codecVars>>

\* make_stream(infnt, outfn, image_tuples, expert): entry.
MakeStream ==
    /\ pc = "idle"
    /\ \E infnt \in SeqsUpTo(DOMAIN InputFiles, MaxInputs),
          image_tuples \in SeqsUpTo(SourcePool, MaxSources),
          expert \in BOOLEAN :
            args' = [infnt |-> infnt, outfn |-> OutFn,
             image_tuples |-> image_tuples, expert |-> expert]
    /\ fim_map' = {}
    /\ infile_images' = EmptyDict
    /\ cmdline_images' = EmptyDict
    /\ cmdline_image_order' = <<>>
    /\ k' = 1
    /\ pc' = "inputs"
    /\ result' = <<"running", "">>
    /\ UNCHANGED <<dargs, fs, xfiles, open, pos, image_order, images, listing,
                   codecVars>>

\* for infn in infnt: infile = open(infn, "rb")
MakeOpenInput ==
    /\ pc = "inputs"
    /\ k <= Len(args.infnt)
    /\ open' = open \cup {InFile(args.infnt[k])}
    /\ pos' = 0
    /\ pc' = "read"
    /\ UNCHANGED <<args, dargs, fs, xfiles, k, makeVars, listing, result, codecVars>>

\* One pass of the while loop over an input stream: Image(instream=infile),
\* then the break and infile.close() on NoHdr, or the bookkeeping.
MakeReadImage ==
    /\ pc = "read"
    /\ \E r \in {ImageSetFromStream(fs[args.infnt[k]], pos)} :
       LET image_id == r.img.header.image_id
           id == rev_image_table[image_id]
       IN  \/ /\ r.status = "NoHdr"
              /\ open' = open \ {InFile(args.infnt[k])}
              /\ k' = k + 1
              /\ pc' = "inputs"
              /\ UNCHANGED <<pos, infile_images, fim_map, result>>
           \/ /\ r.status = "ok"
              /\ image_id \in DOMAIN rev_image_table
              /\ infile_images' =
                    DictSet2(infile_images, id, r.img.header.cur_img_ver, r.img)
              /\ fim_map' = fim_map \cup Bit(image_id)
              /\ pos' = r.pos
              /\ UNCHANGED <<pc, open, k, result>>
           \/ /\ r.status = "ok"
              /\ image_id \notin DOMAIN rev_image_table
              /\ Raise("KeyError", "")
              /\ UNCHANGED <<open, k, pos, infile_images, fim_map>>
           \/ /\ r.status \in {"BadHdr", "Exception"}
              /\ Raise(r.status, r.msg)
              /\ UNCHANGED <<open, k, pos, infile_images, fim_map>>
    /\ UNCHANGED <<args, dargs, fs, xfiles, cmdline_images, cmdline_image_order,
                   image_order, images, listing, codecVars>>

\* The input loop is over: the command-line loop starts.
MakeInputsDone ==
    /\ pc = "inputs"
    /\ k > Len(args.infnt)
    /\ pc' = "cmdline"
    /\ k' = 1
    /\ UNCHANGED <<args, dargs, fs, xfiles, open, pos, makeVars, listing, result,
                   codecVars>>

\* One pass of: for (idver, fn) in image_tuples
MakeCmdlineImage ==
    /\ pc = "cmdline"
    /\ k <= Len(args.image_tuples)
    /\ \E r \in {ImageInit(srcfiles, args.image_tuples[k][2],
                              args.image_tuples[k][1])} :
       LET image_id == r.img.header.image_id
           id == rev_image_table[image_id]
       IN  \/ /\ r.status = "ok"
              /\ image_id \in DOMAIN rev_image_table
              /\ cmdline_images' =
                    DictSet2(cmdline_images, id, r.img.header.cur_img_ver, r.img)
              /\ cmdline_image_order' =
                    IF \E n \in DOMAIN cmdline_image_order :
                            cmdline_image_order[n] = id
                    THEN cmdline_image_order
                    ELSE Append(cmdline_image_order, id)
              /\ fim_map' = fim_map \cup Bit(image_id)
              /\ k' = k + 1
              /\ UNCHANGED <<pc, result>>
           \/ /\ r.status = "ok"
              /\ image_id \notin DOMAIN rev_image_table
              /\ Raise("KeyError", "")
              /\ UNCHANGED <<k, cmdline_images, cmdline_image_order, fim_map>>
           \/ /\ r.status # "ok"
              /\ Raise(r.status, r.msg)
              /\ UNCHANGED <<k, cmdline_images, cmdline_image_order, fim_map>>
    /\ UNCHANGED <<args, dargs, fs, xfiles, open, pos, infile_images, image_order,
                   images, listing, codecVars>>

\* A different program: declaration order whatever the mode.
ImageOrderAlwaysDeclared(expert, cmdline_order) ==
    [n \in DOMAIN image_list |-> image_list[n][1]]

\* image_order: the ids in emission order.
ImageOrder(expert, cmdline_order) ==
    IF expert THEN cmdline_order
    ELSE [n \in DOMAIN image_list |-> image_list[n][1]]

\* A different program: the command line's images, overridden by those of
\* the input files.
MergedImagesInputWins(infile_imgs, cmdline_imgs, i) ==
    DictUpdate(DictUpdate(EmptyDict,
                          IF i \in DOMAIN cmdline_imgs
                          THEN cmdline_imgs[i] ELSE EmptyDict),
               IF i \in DOMAIN infile_imgs THEN infile_imgs[i] ELSE EmptyDict)

\* The images of id i: those of the input files, overridden by those of the
\* command line.
MergedImages(infile_imgs, cmdline_imgs, i) ==
    DictUpdate(DictUpdate(EmptyDict,
                          IF i \in DOMAIN infile_imgs
                          THEN infile_imgs[i] ELSE EmptyDict),
               IF i \in DOMAIN cmdline_imgs THEN cmdline_imgs[i] ELSE EmptyDict)

\* A different program: the versions in descending order.
VersionOrderDescending(imgs) ==
    LET keys == sorted(DOMAIN imgs)
    IN  [n \in DOMAIN keys |-> imgs[keys[Len(keys) + 1 - n]]]

\* images = [images[x] for x in sorted(images.keys())]
VersionOrder(imgs) ==
    LET keys == sorted(DOMAIN imgs)
    IN  [n \in DOMAIN keys |-> imgs[keys[n]]]

\* A different program: the bit is cleared at every pop, and set again by
\* nothing.
FimAfterPopAlwaysClears(fim, img, rest) == fim \ Bit(img.header.image_id)

\* A different program: the bit is never cleared.
FimAfterPopNeverClears(fim, img, rest) == fim

\* fim_map once img is popped and rest is what remains of its id.
FimAfterPop(fim, img, rest) ==
    IF Len(rest) = 0 THEN fim \ Bit(img.header.image_id) ELSE fim

\* A different program: the version of the next image is written to
\* cur_img_ver instead of next_img_ver.
StampedWrongField(img, rest, fim) ==
    [img EXCEPT !.header.cur_img_ver =
                    IF Len(rest) = 0 THEN 0 ELSE rest[1].header.cur_img_ver,
                !.header.following_images = fim,
                !.header.minor = MINOR_VER]

\* The header fields make_stream sets on img before writing it.
Stamped(img, rest, fim) ==
    [img EXCEPT !.header.next_img_ver =
                    IF Len(rest) = 0 THEN 0 ELSE rest[1].header.cur_img_ver,
                !.header.following_images = fim,
                !.header.minor = MINOR_VER]

\* outfile = open(outfn, "wb")
MakeOpenOutput ==
    /\ pc = "cmdline"
    /\ k > Len(args.image_tuples)
    /\ image_order' = ImageOrder(args.expert, cmdline_image_order)
    /\ fs' = DictSet(fs, args.outfn, <<>>)
    /\ open' = open \cup {OutFile(args.outfn)}
    /\ images' = <<>>
    /\ k' = 1
    /\ pc' = "emit"
    /\ UNCHANGED <<args, dargs, xfiles, pos, infile_images, cmdline_images,
                   cmdline_image_order, fim_map, listing, result, codecVars>>

\* for i in image_order: the passes up to the next id that has images
\* (every id without any is skipped by `continue`), and that id's images
\* in version order.
MakeNextImages ==
    /\ pc = "emit"
    /\ images = <<>>
    /\ k <= Len(image_order)
    /\ LET has(n) == DOMAIN MergedImages(infile_images, cmdline_images,
                                         image_order[n]) # {}
           rest == {n \in k..Len(image_order) : has(n)}
           n == CHOOSE x \in rest : \A y \in rest : x <= y
       IN  IF rest = {}
           THEN /\ k' = Len(image_order) + 1
                /\ images' = <<>>
           ELSE /\ k' = n + 1
                /\ images' = VersionOrder(MergedImages(infile_images,
                                            cmdline_images, image_order[n]))
    /\ UNCHANGED <<pc, args, dargs, fs, xfiles, open, pos, infile_images,
                   cmdline_images, cmdline_image_order, image_order, fim_map,
                   listing, result, codecVars>>

\* One pass of: while len(images) > 0
MakeEmitImage ==
    /\ pc = "emit"
    /\ images # <<>>
    /\ LET img == Head(images)
           rest == Tail(images)
           fim == FimAfterPop(fim_map, img, rest)
       IN  /\ images' = rest
           /\ fim_map' = fim
           /\ fs' = [fs EXCEPT ![args.outfn] =
                        @ \o ImageWrite(Stamped(img, rest, fim))]
    /\ UNCHANGED <<pc, args, dargs, xfiles, open, k, pos, infile_images,
                   cmdline_images, cmdline_image_order, image_order, listing,
                   result, codecVars>>

\* outfile.close()
MakeClose ==
    /\ pc = "emit"
    /\ images = <<>>
    /\ k > Len(image_order)
    /\ open' = open \ {OutFile(args.outfn)}
    /\ pc' = "made"
    /\ result' = <<"ok", "">>
    /\ UNCHANGED <<args, dargs, fs, xfiles, k, pos, makeVars, listing, codecVars>>

-----------------------------------------------------------------------------
(* dump_stream *)

\* The name of the file an image is extracted to: prefix + fn, with
\* "-v%d" appended to fn when the header's minor is at least 2.
ExtractName(prefix, img) ==
    LET id == img.header.image_id
        fn == IF id \in DOMAIN rev_image_table
              THEN rev_image_table[id] ELSE <<"image_id_", id>>
    IN  IF img.header.minor >= 2
        THEN <<prefix, fn, <<"-v", img.header.cur_img_ver>> >>
        ELSE <<prefix, fn, <<>> >>

\* A different program: the padding is extracted with the payload.
ExtractedBitsWithPadding(img) == img.bits \o get_padding(img)

\* xfile.write(img.get_bits())
ExtractedBits(img) == img.bits

\* dump_stream(infn, do_dump, do_extract, prefix): entry, and inf = open(infn).
\* The stream is the one make_stream has just written, or a prior stream.
DumpStream ==
    /\ \/ pc = "made" /\ dargs' = [infn |-> args.outfn, do_dump |-> TRUE,
                                   do_extract |-> TRUE, prefix |-> "dump-"]
       \/ pc = "idle" /\ \E infn \in DOMAIN fs, x \in BOOLEAN :
                            dargs' = [infn |-> infn, do_dump |-> ~x,
                                      do_extract |-> x, prefix |-> "dump-"]
    /\ open' = open \cup {InFile(dargs'.infn)}
    /\ pos' = 0
    /\ listing' = <<>>
    /\ pc' = "dump"
    /\ result' = <<"running", "">>
    /\ UNCHANGED <<args, fs, xfiles, k, makeVars, codecVars>>

\* One pass of the while loop of dump_stream.
DumpImage ==
    /\ pc = "dump"
    /\ \E r \in {ImageSetFromStream(fs[dargs.infn], pos)} :
           \/ /\ r.status = "NoHdr"
              /\ open' = open \ {InFile(dargs.infn)}      \* inf.close()
              /\ pc' = "dumped"
              /\ result' = <<"ok", "">>
              /\ UNCHANGED <<pos, listing, xfiles>>
           \/ /\ r.status = "ok"
              /\ listing' = IF dargs.do_dump
                            THEN Append(listing, r.img.header) ELSE listing
              /\ xfiles' = IF dargs.do_extract
                           THEN DictSet(xfiles, ExtractName(dargs.prefix, r.img),
                                        ExtractedBits(r.img))
                           ELSE xfiles
              /\ pos' = r.pos
              /\ UNCHANGED <<pc, open, result>>
           \/ /\ r.status \in {"BadHdr", "Exception"}
              /\ Raise(r.status, r.msg)
              /\ UNCHANGED <<open, pos, listing, xfiles>>
    /\ UNCHANGED <<args, dargs, fs, k, makeVars, codecVars>>

-----------------------------------------------------------------------------
(* The program: one build, and a dump of its output or of a prior stream *)

NoHeader == [status |-> "none"]
NoReadback == [written |-> <<>>, kind |-> "none"]

Init ==
    /\ pc = "idle"
    /\ args = [outfn |-> OutFn]
    /\ dargs = [infn |-> OutFn]
    /\ fs = InputFiles
    /\ xfiles = EmptyDict
    /\ open = {}
    /\ k = 0
    /\ pos = 0
    /\ infile_images = EmptyDict
    /\ cmdline_images = EmptyDict
    /\ cmdline_image_order = <<>>
    /\ image_order = <<>>
    /\ images = <<>>
    /\ fim_map = {}
    /\ listing = <<>>
    /\ result = <<"none", "">>
    /\ h = NoHeader
    /\ hbits = <<>>
    /\ hdec = NoHeader
    /\ readback = NoReadback

Next ==
    \/ MakeStream
    \/ MakeOpenInput
    \/ MakeReadImage
    \/ MakeInputsDone
    \/ MakeCmdlineImage
    \/ MakeOpenOutput
    \/ MakeNextImages
    \/ MakeEmitImage
    \/ MakeClose
    \/ DumpStream
    \/ DumpImage

Spec == Init /\ [][Next]_vars

-----------------------------------------------------------------------------
(* The header codec on its own: a header is encoded, and the 24 bytes decoded *)

\* The values a header's fields are drawn from: the ends of each field's
\* width and a value between them (image_len up to the largest integer the
\* model checker represents).
HdrMajors == {0, 1, 2, 15}
HdrMinors == {0, 1, 2, 3, 15}
HdrVers == {0, 9, 15}
HdrIds == {0, 29, 255}
HdrLens == {0, 305419896, 2147483647}
HdrCrcs == {<<0, 0>>, <<4660, 22136>>, <<65535, 65535>>}
HdrFims == {{}, {0, 63}, 0..63}

Headers ==
    [major : HdrMajors, minor : HdrMinors, image_id : HdrIds,
     next_img_ver : HdrVers, cur_img_ver : HdrVers, image_len : HdrLens,
     image_crc : HdrCrcs, following_images : HdrFims]

progVars == <<pc, args, dargs, fs, xfiles, open, k, pos, infile_images,
              cmdline_images, cmdline_image_order, image_order, images,
              fim_map, listing, result>>

InitHdr ==
    /\ pc = "idle"
    /\ args = [outfn |-> OutFn]
    /\ dargs = [infn |-> OutFn]
    /\ fs = InputFiles
    /\ xfiles = EmptyDict
    /\ open = {}
    /\ k = 0
    /\ pos = 0
    /\ infile_images = EmptyDict
    /\ cmdline_images = EmptyDict
    /\ cmdline_image_order = <<>>
    /\ image_order = <<>>
    /\ images = <<>>
    /\ fim_map = {}
    /\ listing = <<>>
    /\ result = <<"none", "">>
    /\ h \in Headers
    /\ hbits = <<>>
    /\ hdec = NoHeader
    /\ readback = NoReadback

\* hbits = h.get_bits()
HdrEncode ==
    /\ hbits = <<>>
    /\ hbits' = get_bits(h)
    /\ UNCHANGED <<h, hdec, readback, progVars>>

\* ImageHdr(infile) on a file that holds hbits
HdrDecode ==
    /\ hbits # <<>>
    /\ hdec = NoHeader
    /\ hdec' = HdrSetFromFile(hbits, 0)
    /\ UNCHANGED <<h, hbits, readback, progVars>>

NextHdr == HdrEncode \/ HdrDecode

SpecHdr == InitHdr /\ [][NextHdr]_vars

-----------------------------------------------------------------------------
(* Read-back: records are written with Image.write, the file is left as it
   is, cut short or changed in one bit, and dump_stream reads it *)

RecFn == "rec.bfb"
MaxRecords == 2

\* The images written: of 9 bytes (7 of padding), of 2 bytes (6 of padding)
\* and of none, made from explicit sources, and one of 8 bytes (no padding)
\* that comes from a prior stream.
RecImages ==
    { ImageInit(srcfiles, <<102>>, <<"bl2">>).img,
      ImageInit(srcfiles, <<61, 233>>, <<"bl31", "v0">>).img,
      ImageInit(srcfiles, <<61>>, <<"bl2", "cert">>).img,
      PriorB[3] }

\* Where the i-th of the written records starts in the file.
RecStart(written, i) == Len(StreamOf(SubSeq(written, 1, i - 1)))

\* The offsets of the payload and padding bytes of the i-th written record.
RecBody(written, i) ==
    LET len == written[i].header.image_len
        first == RecStart(written, i) + length
    IN  first .. (first + len + num_padding_bytes(len) - 1)

\* byte with bit b inverted
FlipBit(byte, b) ==
    IF Field(byte, b, 1) = 1 THEN byte - 2 ^ b ELSE byte + 2 ^ b

InitRec ==
    /\ pc = "rec"
    /\ args = [outfn |-> OutFn]
    /\ dargs = [infn |-> RecFn]
    /\ fs = (RecFn :> <<>>)
    /\ xfiles = EmptyDict
    /\ open = {}
    /\ k = 0
    /\ pos = 0
    /\ infile_images = EmptyDict
    /\ cmdline_images = EmptyDict
    /\ cmdline_image_order = <<>>
    /\ image_order = <<>>
    /\ images = <<>>
    /\ fim_map = {}
    /\ listing = <<>>
    /\ result = <<"none", "">>
    /\ h = NoHeader
    /\ hbits = <<>>
    /\ hdec = NoHeader
    /\ readback = NoReadback

recFrame == <<args, dargs, xfiles, open, k, pos, makeVars, listing, result,
              h, hbits, hdec>>

\* img.write(outfile)
RecWrite ==
    /\ pc = "rec"
    /\ Len(readback.written) < MaxRecords
    /\ \E img \in RecImages :
        /\ fs' = [fs EXCEPT ![RecFn] = @ \o ImageWrite(img)]
        /\ readback' = [readback EXCEPT !.written = Append(@, img)]
    /\ UNCHANGED <<pc, recFrame>>

\* The file is read as it was written.
RecKeep ==
    /\ pc = "rec"
    /\ readback' = [readback EXCEPT !.kind = "kept"]
    /\ pc' = "idle"
    /\ UNCHANGED <<fs, recFrame>>

\* The file loses its end: its first t bytes remain.
RecCut ==
    /\ pc = "rec"
    /\ \E t \in 0..(Len(fs[RecFn]) - 1) :
        /\ fs' = [fs EXCEPT ![RecFn] = SubSeq(@, 1, t)]
        /\ readback' = [written |-> readback.written, kind |-> "cut", at |-> t]
    /\ pc' = "idle"
    /\ UNCHANGED recFrame

\* One bit of the payload or of the padding of one record is inverted.
RecFlip ==
    /\ pc = "rec"
    /\ \E i \in DOMAIN readback.written :
       \E at \in RecBody(readback.written, i), b \in 0..7 :
        /\ fs' = [fs EXCEPT ![RecFn][at + 1] = FlipBit(@, b)]
        /\ readback' = [written |-> readback.written, kind |-> "flip",
                        rec |-> i, at |-> at, bit |-> b]
    /\ pc' = "idle"
    /\ UNCHANGED recFrame

NextRec ==
    \/ RecWrite
    \/ RecKeep
    \/ RecCut
    \/ RecFlip
    \/ DumpStream
    \/ DumpImage

SpecRec == InitRec /\ [][NextRec]_vars

-----------------------------------------------------------------------------
(* What the operations leave behind, as the claims speak of it *)

RECURSIVE Records(_, _)
\* The records a stream holds from position p on, by the framing alone:
\* header, image_len bytes of payload, padding.
Records(stream, p) ==
    LET hr == HdrSetFromFile(stream, p)
        len == hr.header.image_len
    IN  IF hr.status # "ok" THEN <<>>
        ELSE <<[header |-> hr.header, bits |-> Read(stream, p + length, len)]>>
             \o Records(stream, p + length + len + num_padding_bytes(len))

\* The records make_stream has written so far.
Out == IF args.outfn \in DOMAIN fs THEN Records(fs[args.outfn], 0) ELSE <<>>

\* make_stream has returned.
Built == pc = "made"

IdAt(out, i) == out[i].header.image_id
VerAt(out, i) == out[i].header.cur_img_ver
FimAt(out, i) == out[i].header.following_images

\* The numeric type and version an image option names, and its payload.
SourceId(t) == image_table[ParseIdstr(t[1]).idstr]
SourceVer(t) == ParseIdstr(t[1]).img_ver
SourcePayload(t) == SourceBits(srcfiles, t[2])

\* The types the explicit sources name.
NamedIds == {SourceId(args.image_tuples[n]) : n \in DOMAIN args.image_tuples}

\* C1: in the output, the records of one type are contiguous and in
\* strictly ascending version order, each carries the version of the next
\* record of its type as next_img_ver, and the last of a type carries 0.
VersionChaining ==
    LET out == Out
    IN  \A i \in DOMAIN out :
          /\ i < Len(out) /\ IdAt(out, i + 1) = IdAt(out, i)
                => /\ VerAt(out, i) < VerAt(out, i + 1)
                   /\ out[i].header.next_img_ver = VerAt(out, i + 1)
          /\ i < Len(out) /\ IdAt(out, i + 1) # IdAt(out, i)
                => out[i].header.next_img_ver = 0
          /\ i = Len(out) /\ Built => out[i].header.next_img_ver = 0
          /\ \A j \in DOMAIN out :
                j > i /\ IdAt(out, j) = IdAt(out, i)
                    => \A m \in i..j : IdAt(out, m) = IdAt(out, i)

\* Three versions of bl2 are chained, version 1 having been named on the
\* command line before version 0.
VersionChainingWitness ==
    /\ Built
    /\ Len(args.image_tuples) = 2
    /\ args.image_tuples[1][1] = <<"bl2", "v1">>
    /\ args.image_tuples[2][1] = <<"bl2">>
    /\ LET out == Out
       IN  /\ Len(out) >= 3
           /\ \A i \in 1..3 : IdAt(out, i) = 1 /\ VerAt(out, i) = i - 1

\* C2: once make_stream has returned, every record after the last record of
\* a type has that type's bit clear in following_images, and every record
\* before the last record of a type has it set.
BitmapMonotone ==
    Built =>
        LET out == Out
        IN  \A i \in DOMAIN out :
              LET T == IdAt(out, i)
                  last == CHOOSE n \in DOMAIN out :
                            /\ IdAt(out, n) = T
                            /\ \A m \in DOMAIN out : IdAt(out, m) = T => m <= n
              IN  \A j \in DOMAIN out :
                    /\ j > last => T \notin FimAt(out, j)
                    /\ j < last => T \in FimAt(out, j)

\* An output of two types, the first in two versions.
BitmapMonotoneWitness ==
    /\ Built
    /\ LET out == Out
       IN  /\ Len(out) >= 3
           /\ IdAt(out, 1) = IdAt(out, 2)
           /\ IdAt(out, 3) # IdAt(out, 1)
           /\ IdAt(out, 3) \in FimAt(out, 1)

\* C3, as stated: every bit set in a record's following_images is the type
\* of a record written later; so the last record's following_images is 0.
FollowingImagesComeLater ==
    Built =>
        LET out == Out
        IN  \A i \in DOMAIN out : \A N \in FimAt(out, i) :
                \E j \in DOMAIN out : j > i /\ IdAt(out, j) = N

\* The types read from the input files that expert mode never emits.
DroppedIds ==
    IF args.expert
    THEN {image_table[n] : n \in DOMAIN infile_images \ DOMAIN cmdline_images}
    ELSE {}

\* C3, amended: every bit set in a record's following_images is the type of
\* a record written later or, in expert mode, a type read from an input
\* file that no explicit source names; without such types (default mode, or
\* no input files) the last record's following_images is 0.
FollowingImagesComeLaterOrDropped ==
    Built =>
        LET out == Out
        IN  /\ \A i \in DOMAIN out : \A N \in FimAt(out, i) :
                \/ \E j \in DOMAIN out : j > i /\ IdAt(out, j) = N
                \/ N \in DroppedIds
            /\ (~args.expert \/ args.infnt = <<>>) /\ out # <<>>
                    => FimAt(out, Len(out)) = {}

\* A default-mode merge of an input file and a command-line image whose
\* first record announces a later type and whose last announces none.
FollowingImagesWitness ==
    /\ Built
    /\ ~args.expert
    /\ args.infnt # <<>>
    /\ args.image_tuples # <<>>
    /\ LET out == Out
       IN  /\ Len(out) >= 3
           /\ IdAt(out, Len(out)) \in FimAt(out, 1)
           /\ IdAt(out, Len(out)) # IdAt(out, 1)
           /\ FimAt(out, Len(out)) = {}

\* The place of a numeric type in image_list.
DeclIndex(T) == CHOOSE n \in DOMAIN image_list : image_list[n][2] = T

\* The place of the first explicit source that names the numeric type T.
FirstNamed(T) ==
    CHOOSE n \in DOMAIN args.image_tuples :
        /\ SourceId(args.image_tuples[n]) = T
        /\ \A m \in 1..(n - 1) : SourceId(args.image_tuples[m]) # T

\* C4: in default mode the types are written in the order image_list
\* declares them; in expert mode in the order the explicit sources first
\* name them.
EmissionOrder ==
    LET out == Out
    IN  \A i, j \in DOMAIN out :
            i < j =>
                IF args.expert
                THEN /\ IdAt(out, i) \in NamedIds
                     /\ IdAt(out, j) \in NamedIds
                     /\ FirstNamed(IdAt(out, i)) <= FirstNamed(IdAt(out, j))
                ELSE DeclIndex(IdAt(out, i)) <= DeclIndex(IdAt(out, j))

\* An expert build that writes sys before bl2, against image_list's order
\* and with a second version of bl2 named after sys.
EmissionOrderWitness ==
    /\ Built
    /\ args.expert
    /\ Len(args.image_tuples) = 2
    /\ LET out == Out
       IN  /\ Len(out) >= 2
           /\ IdAt(out, 1) = 29
           /\ IdAt(out, Len(out)) = 1

\* The <<type, version>> pairs of the records an input file holds, of the
\* explicit sources, and of both.
InputPairs(n) ==
    LET recs == Records(fs[args.infnt[n]], 0)
    IN  {<<IdAt(recs, i), VerAt(recs, i)>> : i \in DOMAIN recs}
SourcePairs ==
    {<<SourceId(args.image_tuples[n]), SourceVer(args.image_tuples[n])>> :
        n \in DOMAIN args.image_tuples}
AllPairs == SourcePairs \cup UNION {InputPairs(n) : n \in DOMAIN args.infnt}

\* The payloads the highest-priority source of a pair supplies: an explicit
\* source before any input file, a later input file before an earlier one.
WinningPayloads(pair) ==
    IF pair \in SourcePairs
    THEN {SourcePayload(args.image_tuples[n]) :
            n \in {m \in DOMAIN args.image_tuples :
                    <<SourceId(args.image_tuples[m]),
                      SourceVer(args.image_tuples[m])>> = pair}}
    ELSE LET n == CHOOSE x \in DOMAIN args.infnt :
                    /\ pair \in InputPairs(x)
                    /\ \A y \in DOMAIN args.infnt :
                            pair \in InputPairs(y) => y <= x
             recs == Records(fs[args.infnt[n]], 0)
         IN  {recs[i].bits : i \in {m \in DOMAIN recs :
                                     <<IdAt(recs, m), VerAt(recs, m)>> = pair}}

\* The output holds exactly one record for each pair of `pairs`, none for
\* another pair, each with the payload of its highest-priority source.
MergedExactly(pairs) ==
    LET out == Out
    IN  /\ \A pair \in pairs :
            Cardinality({i \in DOMAIN out :
                            <<IdAt(out, i), VerAt(out, i)>> = pair}) = 1
        /\ \A i \in DOMAIN out :
            /\ <<IdAt(out, i), VerAt(out, i)>> \in pairs
            /\ out[i].bits \in WinningPayloads(<<IdAt(out, i), VerAt(out, i)>>)

\* C5, as stated: the output holds exactly one record for every pair of the
\* input files and the explicit sources, from its highest-priority source.
MergePriority == Built => MergedExactly(AllPairs)

\* C5, amended: the output holds exactly one record, from its
\* highest-priority source, for every pair whose type is emitted: every
\* type in default mode, the types the explicit sources name in expert mode.
MergePriorityOfEmittedTypes ==
    Built => MergedExactly({pair \in AllPairs :
                                ~args.expert \/ pair[1] \in NamedIds})

\* bl31 version 0 comes from both input files and from the command line:
\* the output holds it once, with the command line's payload.
MergePriorityWitness ==
    /\ Built
    /\ args.infnt = <<"a.bfb", "b.bfb">>
    /\ \E n \in DOMAIN args.image_tuples :
            args.image_tuples[n][1] = <<"bl31", "v0">>
    /\ LET out == Out
       IN  \E i \in DOMAIN out :
            /\ IdAt(out, i) = 3 /\ VerAt(out, i) = 0
            /\ out[i].bits = <<195, 169>>

\* dump_stream -x has returned from the stream make_stream built.
Extracted ==
    /\ pc = "dumped"
    /\ dargs.infn = args.outfn
    /\ dargs.do_extract
    /\ args.outfn \in DOMAIN fs

\* C9: once a built stream is extracted, the file of each explicit source's
\* record holds exactly the source's payload (that of the last source which
\* names the record's type and version).
ExtractRoundTrip ==
    Extracted =>
        \A n \in DOMAIN args.image_tuples :
            LET t == args.image_tuples[n]
                name == <<dargs.prefix, rev_image_table[SourceId(t)],
                          <<"-v", SourceVer(t)>> >>
            IN  (\A m \in DOMAIN args.image_tuples :
                    m > n => <<SourceId(args.image_tuples[m]),
                               SourceVer(args.image_tuples[m])>>
                             # <<SourceId(t), SourceVer(t)>>)
                => /\ name \in DOMAIN xfiles
                   /\ xfiles[name] = SourcePayload(t)

\* The two bytes of --sys="=PN", written with 6 bytes of padding, and the
\* 9 bytes of the file f come back as they were.
ExtractRoundTripWitness ==
    /\ Extracted
    /\ <<"dump-", <<"sys">>, <<"-v", 0>> >> \in DOMAIN xfiles
    /\ xfiles[<<"dump-", <<"sys">>, <<"-v", 0>> >>] = <<80, 78>>
    /\ <<"dump-", <<"bl2">>, <<"-v", 0>> >> \in DOMAIN xfiles
    /\ xfiles[<<"dump-", <<"bl2">>, <<"-v", 0>> >>] = srcfiles[<<102>>]

\* C10, as stated: no operation ends, by returning or by an exception, with
\* a file it opened still open, and no two input streams are open at once.
FilesReleased ==
    /\ pc \in {"made", "dumped", "failed"} => open = {}
    /\ Cardinality({f \in open : f[1] = "infile"}) <= 1

\* C6, as stated: the 24 bytes a header is encoded to decode to a header
\* equal to it in every field.
HeaderRoundTrip ==
    hdec # NoHeader => hdec.status = "ok" /\ hdec.header = h

\* C6, amended: the 24 bytes a header of major 1 and minor at most 2 is
\* encoded to decode to a header equal to it in every field; those of a
\* header of another major or minor decode to BadHdr.
HeaderRoundTripOfSupportedVersions ==
    hdec # NoHeader =>
        IF h.major = MAJOR_VER /\ h.minor <= MINOR_VER
        THEN hdec.status = "ok" /\ hdec.header = h
        ELSE hdec.status = "BadHdr"

\* A header of the current version with every field at the top of its
\* width has been encoded and decoded.
HeaderRoundTripWitness ==
    /\ hdec # NoHeader
    /\ hdec.status = "ok"
    /\ Len(hbits) = length
    /\ h.major = 1 /\ h.minor = 2
    /\ h.next_img_ver = 15 /\ h.cur_img_ver = 15 /\ h.image_id = 255
    /\ h.image_len = 2147483647
    /\ h.image_crc = <<65535, 65535>>
    /\ h.following_images = 0..63

\* What is left to read of the stream dump_stream has open.
Remaining == Len(fs[dargs.infn]) - pos

\* C7: a pass of the loop of dump_stream that starts at the end of the
\* stream ends the operation normally, and it is the only one that does; a
\* pass that starts with 1 to 23 bytes left ends it with BadHdr; whatever
\* failure ends it, nothing more is read.
EndOfStream ==
    [][pc = "dump" =>
        /\ Remaining = 0 => pc' = "dumped" /\ result' = <<"ok", "">>
        /\ Remaining \in 1..(length - 1)
                => pc' = "failed" /\ result' = <<"BadHdr", "ImageHdr too short">>
        /\ pc' = "dumped" => Remaining = 0
        /\ pc' = "failed" => listing' = listing /\ pos' = pos
        /\ pc' = "dump" => Remaining >= length /\ pos' >= pos + length
      ]_vars

\* What is left to read of the input file make_stream has open.
RemainingInput == Len(fs[args.infnt[k]]) - pos

\* The same of the loop of make_stream over an input file: NoHdr alone ends
\* the loop and lets the build go on to the next input file.
EndOfStreamInMakeStream ==
    [][pc = "read" =>
        /\ RemainingInput = 0 => pc' = "inputs" /\ k' = k + 1
        /\ RemainingInput \in 1..(length - 1)
                => pc' = "failed" /\ result' = <<"BadHdr", "ImageHdr too short">>
        /\ pc' = "inputs" => RemainingInput = 0
        /\ pc' = "failed" => infile_images' = infile_images
      ]_vars

\* A stream of two records has lost its last byte of header: the first
\* record is listed, then BadHdr ends the read.
EndOfStreamWitness ==
    /\ pc = "failed"
    /\ readback.kind = "cut"
    /\ Len(readback.written) = 2
    /\ Remaining = length - 1
    /\ dargs.do_dump
    /\ Len(listing) = 1
    /\ result = <<"BadHdr", "ImageHdr too short">>

\* C8: when one bit of the payload or padding of a written record is
\* inverted, reading that record fails on the CRC and delivers no record.
CrcIntegrity ==
    [][/\ pc = "dump"
       /\ readback.kind = "flip"
       /\ pos = RecStart(readback.written, readback.rec)
       => /\ pc' = "failed"
          /\ result' = <<"Exception", "header CRC does not match calculated CRC">>
          /\ listing' = listing
          /\ xfiles' = xfiles
      ]_vars

\* A bit of the padding of the second of two records is inverted: the
\* first record is listed, the second fails on the CRC.
CrcIntegrityWitness ==
    /\ pc = "failed"
    /\ readback.kind = "flip"
    /\ readback.rec = 2
    /\ readback.at >= RecStart(readback.written, 2) + length
                        + readback.written[2].header.image_len
    /\ dargs.do_dump
    /\ Len(listing) = 1
    /\ result = <<"Exception", "header CRC does not match calculated CRC">>

\* The output file of make_stream exists or is open.
OutputOpened == OutFn \in DOMAIN fs \/ OutFile(OutFn) \in open

\* C11: when the output file of make_stream is opened, every record of
\* every input file has been read and every explicit source has been made
\* an image; so a build that BadHdr, the CRC or length Exception of an
\* input file, or the KeyError of an unknown identifier ends has opened no
\* output file and written nothing.
OutputOpenedLast ==
    /\ OutputOpened =>
        /\ pc \in {"emit", "made", "dump", "dumped"}
        /\ \A n \in DOMAIN args.infnt : \A pair \in InputPairs(n) :
                /\ rev_image_table[pair[1]] \in DOMAIN infile_images
                /\ pair[2] \in DOMAIN infile_images[rev_image_table[pair[1]]]
        /\ \A pair \in SourcePairs :
                /\ rev_image_table[pair[1]] \in DOMAIN cmdline_images
                /\ pair[2] \in DOMAIN cmdline_images[rev_image_table[pair[1]]]
    /\ pc = "failed" /\ result[1] \in {"BadHdr", "Exception", "KeyError"}
        => ~OutputOpened

\* A build whose input file was read to its end, and whose second explicit
\* source names an identifier that is in no table, has ended with KeyError.
OutputOpenedLastWitness ==
    /\ pc = "failed"
    /\ result[1] = "KeyError"
    /\ "infnt" \in DOMAIN args
    /\ args.infnt = <<"b.bfb">>
    /\ Len(args.image_tuples) = 2
    /\ args.image_tuples[2][1] = <<"bogus", "v1">>
    /\ k = 2
    /\ DOMAIN cmdline_images # {}
    /\ ~OutputOpened

\* C12: dump_stream reads a stream of n records written by Image.write, and
\* left as written, record by record: each pass starts where a written
\* record starts, delivers that record's header and payload and moves the
\* position by 24 + image_len + padding bytes; the pass after the n-th
\* record ends the read normally, with the n headers listed in order.
ReadBackIdentity ==
    [][pc = "dump" /\ readback.kind = "kept" =>
        LET written == readback.written
            n == Len(written)
        IN  \E i \in 1..(n + 1) :
              /\ pos = RecStart(written, i)
              /\ i <= n =>
                    LET img == written[i]
                        len == img.header.image_len
                    IN  /\ pc' = "dump"
                        /\ pos' = pos + 24 + len + num_padding_bytes(len)
                        /\ dargs.do_dump
                                => listing' = Append(listing, img.header)
                        /\ dargs.do_extract
                                => /\ ExtractName(dargs.prefix, img)
                                        \in DOMAIN xfiles'
                                   /\ xfiles'[ExtractName(dargs.prefix, img)]
                                        = img.bits
                                   /\ Len(img.bits) = len
              /\ i = n + 1 =>
                    /\ pc' = "dumped"
                    /\ result' = <<"ok", "">>
                    /\ dargs.do_dump
                            => listing' = [m \in 1..n |-> written[m].header]
      ]_vars

\* Two records, the first without payload and the second with padding,
\* have been written and listed.
ReadBackIdentityWitness ==
    /\ pc = "dumped"
    /\ readback.kind = "kept"
    /\ Len(readback.written) = 2
    /\ readback.written[1].header.image_len = 0
    /\ readback.written[2].header.image_len = 9
    /\ dargs.do_dump
    /\ Len(listing) = 2
    /\ listing[2].image_len = 9

\* The image make_stream holds for a <<type, version>> pair before it
\* writes it: the one made from the last explicit source that names the
\* pair or, when none does, the last record of the pair in the last input
\* file that holds it.
OriginalImage(pair) ==
    IF pair \in SourcePairs
    THEN LET n == CHOOSE x \in DOMAIN args.image_tuples :
                    /\ <<SourceId(args.image_tuples[x]),
                         SourceVer(args.image_tuples[x])>> = pair
                    /\ \A y \in DOMAIN args.image_tuples :
                            <<SourceId(args.image_tuples[y]),
                              SourceVer(args.image_tuples[y])>> = pair => y <= x
         IN  ImageInit(srcfiles, args.image_tuples[n][2],
                       args.image_tuples[n][1]).img
    ELSE LET n == CHOOSE x \in DOMAIN args.infnt :
                    /\ pair \in InputPairs(x)
                    /\ \A y \in DOMAIN args.infnt :
                            pair \in InputPairs(y) => y <= x
             recs == Records(fs[args.infnt[n]], 0)
             m == CHOOSE x \in DOMAIN recs :
                    /\ <<IdAt(recs, x), VerAt(recs, x)>> = pair
                    /\ \A y \in DOMAIN recs :
                            <<IdAt(recs, y), VerAt(recs, y)>> = pair => y <= x
         IN  recs[m]

\* Every record of the output has the payload of the image it was made
\* from, and the same value in each of the header fields `fields`.
SameAsOriginal(fields) ==
    LET out == Out
    IN  \A i \in DOMAIN out :
            LET orig == OriginalImage(<<IdAt(out, i), VerAt(out, i)>>)
            IN  /\ <<IdAt(out, i), VerAt(out, i)>> \in AllPairs
                /\ out[i].bits = orig.bits
                /\ \A f \in fields : out[i].header[f] = orig.header[f]

\* C13, as stated: each record of the output has the major, minor,
\* cur_img_ver, image_id, image_len, image_crc and payload of the image
\* as it was read from the input file or made from the explicit source.
FrameOfAssembly ==
    Built => SameAsOriginal({"major", "minor", "cur_img_ver", "image_id",
                             "image_len", "image_crc"})

\* C13, amended: each record of the output has the major, cur_img_ver,
\* image_id, image_len, image_crc and payload of the image as it was read
\* or made, and the minor MINOR_VER whatever the image had.
FrameOfAssemblyButMinor ==
    Built =>
        /\ SameAsOriginal({"major", "cur_img_ver", "image_id", "image_len",
                           "image_crc"})
        /\ \A i \in DOMAIN Out : Out[i].header.minor = MINOR_VER

\* A build from a.bfb, whose bl31 record has minor 1, and an explicit
\* source: the bl31 record is written with its payload and with minor 2.
FrameOfAssemblyWitness ==
    /\ Built
    /\ args.infnt = <<"a.bfb">>
    /\ Len(args.image_tuples) = 1
    /\ LET out == Out
       IN  /\ Len(out) = 3
           /\ \E i \in DOMAIN out :
                /\ IdAt(out, i) = 3
                /\ out[i].bits = <<161>>
                /\ out[i].header.minor = 2
                /\ OriginalImage(<<3, 0>>).header.minor = 1

====
